---- MODULE Spec2Model ----
(***************************************************************************)
(* The call-resilience layer of services/AIService.js (src/unnamed/       *)
(* part_001): circuit breaker, rate limiter, daily quota, response cache   *)
(* and the retry loops of the public operations, as driven by the routes.  *)
(*                                                                         *)
(* One action is one suspension-free segment of an async method: it runs   *)
(* from an event (a request, a timer, a provider response) to the next     *)
(* point where the method waits on a timer or on the provider.             *)
(* Times are in milliseconds and are kept relative to the current instant, *)
(* so that Date.now() reads 0: a tick of the clock moves every stored     *)
(* timestamp back.  A timestamp is followed only as far back as the code   *)
(* can tell: lastApiCall to minCallInterval ago, nextTry to 1ms ago.       *)
(* today is new Date().toDateString().                                     *)
(*                                                                         *)
(* Spec drives the public operations as the routes do.  SpecCB drives     *)
(* withCircuitBreaker directly with a wrapped provider call, SpecGov       *)
(* drives withRateLimit directly next to generateResumeContent.            *)
(* SpecParse drives generateResumeContent and computeATSScore with a       *)
(* provider whose text never parses.  SpecScore, SpecLocal and SpecScrub   *)
(* call computeATSScoreLocally, the local enrichment and scrubJsonText.    *)
(***************************************************************************)
EXTENDS Integers, Sequences, FiniteSets, Bags, TLC

\* ---------------------------------------------------------------- bounds
MaxInFlight == 2
NumKeys == 2
MaxDay == 1
MaxFailures == 5
MaxDailyCalls == 16

\* ------------------------------------------------------ program constants
failureThreshold == 3
resetTimeout == 60000
minCallInterval == 1000
dailyCallLimit == 15
resumeMaxRetries == 2
resumeRetryDelay == 1000
atsMaxRetries == 2
atsRetryDelay == 1000
sectionMaxRetries == 3
sectionRetryDelay == 1000

\* the cache keys: the fingerprints getCacheKey can produce.  The requests
\* of the model differ in roleApplyingFor, which the fingerprint shows, and
\* in whether they carry personalInfo, which it does not; their other
\* fingerprint fields are equal.  Role 0 is a missing or empty
\* roleApplyingFor, role 1 is 'general'.
Keys == 1..NumKeys

Requests == [role : 0..NumKeys, personalInfo : BOOLEAN]

\* getCacheKey with a fingerprint that shows whether personalInfo is there
getCacheKey_personal(data) == IF data.personalInfo THEN 1 ELSE 2

\* role: data.roleApplyingFor || 'general'
getCacheKey(data) == IF data.role = 0 THEN 1 ELSE data.role

\* what one call of model.generateContent can do
RemoteOutcomes == {"ok", "badjson", "e503", "error", "timeout"}

\* Date.now(), in the frame of the current instant
now == 0

VARIABLES
  genAI,          \* TRUE iff GOOGLE_AI_API_KEY was configured
  circuitState, failureCount, nextTry,
  cache,
  lastApiCall, dailyCallCount, lastResetDate,
  today,
  calls,          \* the async calls in flight (a bag of call frames)
  last            \* the call that settled last, as its caller saw it

vars == <<genAI, circuitState, failureCount, nextTry, cache, lastApiCall,
          dailyCallCount, lastResetDate, today, calls, last>>

\* ---------------------------------------------------------------- results
\* shape tells whether the payload has the fields its reader expects
NoResult == [kind |-> "none", fields |-> {}, success |-> "absent",
             path |-> "none", tag |-> "none", error |-> "none",
             shape |-> "none"]

Resolved(fields, success, path, tag) ==
  [kind |-> "resolved", fields |-> fields, success |-> success,
   path |-> path, tag |-> tag, error |-> "none", shape |-> "expected"]

Rejected(err) ==
  [kind |-> "rejected", fields |-> {}, success |-> "absent",
   path |-> "none", tag |-> "none", error |-> err, shape |-> "none"]

\* a result built from JSON of another shape than asked for:
\* generatedContent is whatever JSON.parse gave, the score is null and the
\* summary and lists are empty
Incompatible(res) == [res EXCEPT !.shape = "incompatible"]

\* what model.generateContent can answer that parses and is not the JSON
\* asked for: the text null, or any other value (an object without the
\* fields, an array, a number, a string)
ShapeOutcomes == {"jsonnull", "badshape"}

ResumeAIResult ==
  Resolved({"success", "generatedContent", "aiPrompt", "generationMethod"},
           "true", "ai", "generationMethod")

ResumeLocalResult ==
  Resolved({"success", "generatedContent", "aiPrompt", "enhancements",
            "enhancementMethod"}, "true", "local", "enhancementMethod")

ATSAIResult ==
  Resolved({"score", "summary", "keywordsMatched", "keywordsMissing",
            "suggestions", "computationMethod"},
           "absent", "ai", "computationMethod")

ATSLocalResult ==
  Resolved({"score", "summary", "keywordsMatched", "keywordsMissing",
            "suggestions", "lastComputedAt", "computationMethod"},
           "absent", "local", "computationMethod")

SummaryAIResult ==
  Resolved({"success", "summary", "objective"}, "true", "ai", "none")

SummaryLocalResult ==
  Resolved({"success", "summary", "objective"}, "true", "local", "none")

SectionsLocalResult ==
  Resolved({"success", "enhancedSections"}, "true", "local", "none")

SectionAIResult ==
  Resolved({"success", "enhancedContent"}, "true", "ai", "none")

SectionUnavailableResult ==
  Resolved({"success", "error"}, "false", "none", "none")

SectionFailedResult ==
  Resolved({"success", "error"}, "false", "none", "none")

\* the text reviewResume returns
ReviewResult == Resolved({}, "absent", "ai", "none")

\* ---------------------------------------------------------------- breaker
Breaker == [circuitState |-> circuitState, failureCount |-> failureCount,
            nextTry |-> nextTry]

\* recordFailure with the threshold test off by one
recordFailure_late(b, t) ==
  LET n == b.failureCount + 1 IN
  IF n > failureThreshold
    THEN [circuitState |-> "OPEN", failureCount |-> n,
          nextTry |-> t + resetTimeout]
    ELSE [b EXCEPT !.failureCount = n]

recordFailure(b, t) ==
  LET n == b.failureCount + 1 IN
  IF n >= failureThreshold
    THEN [circuitState |-> "OPEN", failureCount |-> n,
          nextTry |-> t + resetTimeout]
    ELSE [b EXCEPT !.failureCount = n]

\* resetCircuit that closes the breaker and keeps the count
resetCircuit_keep(b) == [b EXCEPT !.circuitState = "CLOSED"]

resetCircuit(b) ==
  [b EXCEPT !.failureCount = 0, !.circuitState = "CLOSED"]

\* breakerEnter that forgets the failures when it lets the trial through
breakerEnter_fresh(b, t) ==
  IF b.circuitState = "OPEN"
    THEN IF t > b.nextTry
           THEN [b |-> [b EXCEPT !.circuitState = "HALF-OPEN",
                                 !.failureCount = 0], pass |-> TRUE]
           ELSE [b |-> b, pass |-> FALSE]
    ELSE [b |-> b, pass |-> TRUE]

\* withCircuitBreaker up to the call of fn: the state it leaves and whether
\* fn is called (pass) or the 'temporarily unavailable' error is thrown
breakerEnter(b, t) ==
  IF b.circuitState = "OPEN"
    THEN IF t > b.nextTry
           THEN [b |-> [b EXCEPT !.circuitState = "HALF-OPEN"], pass |-> TRUE]
           ELSE [b |-> b, pass |-> FALSE]
    ELSE [b |-> b, pass |-> TRUE]

\* withCircuitBreaker after fn returned
breakerSuccess(b) ==
  IF b.circuitState = "HALF-OPEN" THEN resetCircuit(b) ELSE b

\* withCircuitBreaker that rethrows without recording
breakerFailure_silent(b, t) == b

\* withCircuitBreaker after fn threw
breakerFailure(b, t) == recordFailure(b, t)

\* --------------------------------------------------------------- governor
Governor == [lastApiCall |-> lastApiCall, dailyCallCount |-> dailyCallCount,
             lastResetDate |-> lastResetDate]

\* dailyReset that zeroes the counter and leaves the date
dailyReset_stale(g, day) ==
  IF day # g.lastResetDate
    THEN [g EXCEPT !.dailyCallCount = 0]
    ELSE g

\* the state isDailyLimitReached leaves
dailyReset(g, day) ==
  IF day # g.lastResetDate
    THEN [g EXCEPT !.dailyCallCount = 0, !.lastResetDate = day]
    ELSE g

\* isDailyLimitReached with > for >=
isDailyLimitReached_late(g, day) ==
  dailyReset(g, day).dailyCallCount > dailyCallLimit

isDailyLimitReached(g, day) ==
  dailyReset(g, day).dailyCallCount >= dailyCallLimit

isAvailable(cred, b, g, day) ==
  cred /\ b.circuitState # "OPEN" /\ ~isDailyLimitReached(g, day)

\* the governor after isAvailable: && evaluates isDailyLimitReached, and
\* with it the day roll-over, only when the first two conjuncts hold
governorAfterAvailable(cred, b, g, day) ==
  IF cred /\ b.circuitState # "OPEN" THEN dailyReset(g, day) ELSE g

\* withRateLimit: how long it sleeps before taking the slot
rateLimitDelay(g, t) ==
  IF t - g.lastApiCall < minCallInterval
    THEN minCallInterval - (t - g.lastApiCall)
    ELSE 0

\* withRateLimit: taking the slot
reserveSlot(g, t) ==
  [g EXCEPT !.lastApiCall = t, !.dailyCallCount = g.dailyCallCount + 1]

\* ------------------------------------------------------------------ calls
\* a call frame in flight: pc is where it waits, wake when its timer fires,
\* reserved how many slots it took from the governor, wrapped whether it
\* runs as the fn of withCircuitBreaker, trial whether withCircuitBreaker
\* moved the breaker from OPEN to HALF-OPEN to run it
NewCall(op, k) == [op |-> op, pc |-> "start", key |-> k, retryCount |-> 0,
                   wake |-> 0, reserved |-> 0, personalInfo |-> TRUE,
                   wrapped |-> FALSE, trial |-> FALSE]

\* what a direct call of a synchronous method was given and returned
NoOut == [args |-> <<>>, value |-> <<>>]

NoCall == [op |-> "none", key |-> 0, attempts |-> 0, reserved |-> 0,
           trial |-> FALSE, result |-> NoResult, out |-> NoOut]

\* what the caller of a settled call has seen of it
Settle(c, attempts, res) ==
  [op |-> c.op, key |-> c.key, attempts |-> attempts,
   reserved |-> c.reserved, trial |-> c.trial, result |-> res, out |-> NoOut]

SetBreaker(b) ==
  /\ circuitState' = b.circuitState
  /\ failureCount' = b.failureCount
  /\ nextTry' = b.nextTry

SetGovernor(g) ==
  /\ lastApiCall' = g.lastApiCall
  /\ dailyCallCount' = g.dailyCallCount
  /\ lastResetDate' = g.lastResetDate

\* model.generateContent(prompt) is called; the call waits for the provider
\* or, in Promise.race, for the timeout, whichever settles first
Invoke(c) == [c EXCEPT !.pc = "remote"]

Add(c) == calls (+) SetToBag({c})

Replace(c, d) == (calls (-) SetToBag({c})) (+) SetToBag({d})

Remove(c) == calls (-) SetToBag({c})

InFlight == BagToSet(calls)

Room == BagCardinality(calls) < MaxInFlight

\* the call waits on a setTimeout of withRateLimit or of a retry loop
HasTimer(c) == c.pc \in {"rl_sleep", "backoff"}

Init ==
  /\ genAI \in BOOLEAN
  /\ circuitState = "CLOSED"
  /\ failureCount = 0
  /\ nextTry = -1
  /\ cache = [k \in Keys |-> NoResult]
  /\ lastApiCall = -minCallInterval
  /\ dailyCallCount = 0
  /\ lastResetDate = 0
  /\ today = 0
  /\ calls = EmptyBag
  /\ last = NoCall

\* ------------------------------------------------- generateResumeContent
\* what lines 582-610 do up to the first wait, with the synchronous start of
\* withCircuitBreaker, withRateLimit and generateResumeContentWithAI:
\* the breaker and governor they leave, and either the result (res) or the
\* frame that waits (c)
resumeFrame(data) ==
  [NewCall("GRC", getCacheKey(data))
     EXCEPT !.personalInfo = data.personalInfo, !.wrapped = TRUE]

\* resumeHit that asks isAvailable before it looks into the cache
resumeHit_asked(data, cred, b, g, day, cached) ==
  [b |-> b, g |-> governorAfterAvailable(cred, b, g, day), wait |-> FALSE,
   c |-> resumeFrame(data), res |-> cached, cacheIt |-> FALSE]

\* lines 584-588: the cache holds a result under the fingerprint
resumeHit(data, cred, b, g, day, cached) ==
  [b |-> b, g |-> g, wait |-> FALSE, c |-> resumeFrame(data),
   res |-> cached, cacheIt |-> FALSE]

resumeStart(data, cred, b, g, day, cached) ==
  LET c0 == resumeFrame(data)
      avail == isAvailable(cred, b, g, day)
      g1 == governorAfterAvailable(cred, b, g, day)
      be == breakerEnter(b, now)
      d == rateLimitDelay(g1, now)
  IN
  IF cached # NoResult
    THEN resumeHit(data, cred, b, g, day, cached)
    ELSE IF avail /\ b.circuitState # "OPEN"
      THEN IF ~be.pass
        THEN [b |-> be.b, g |-> g1, wait |-> FALSE, c |-> c0,
              res |-> ResumeLocalResult, cacheIt |-> TRUE]
        ELSE IF d > 0
          THEN [b |-> be.b, g |-> g1, wait |-> TRUE,
                c |-> [c0 EXCEPT !.pc = "rl_sleep", !.wake = now + d],
                res |-> NoResult, cacheIt |-> FALSE]
          ELSE IF data.personalInfo
            THEN [b |-> be.b, g |-> reserveSlot(g1, now), wait |-> TRUE,
                  c |-> Invoke([c0 EXCEPT !.reserved = 1]),
                  res |-> NoResult, cacheIt |-> FALSE]
            \* personalInfo.summary of line 619 throws a TypeError
            ELSE [b |-> breakerFailure(be.b, now),
                  g |-> reserveSlot(g1, now), wait |-> FALSE,
                  c |-> [c0 EXCEPT !.reserved = 1],
                  res |-> ResumeLocalResult, cacheIt |-> TRUE]
      ELSE [b |-> b, g |-> g1, wait |-> FALSE, c |-> c0,
            res |-> ResumeLocalResult, cacheIt |-> TRUE]

GenerateResumeContent(data) ==
  /\ Room
  /\ LET k == getCacheKey(data)
         s == resumeStart(data, genAI, Breaker, Governor, today, cache[k])
     IN
     /\ SetBreaker(s.b)
     /\ SetGovernor(s.g)
     /\ cache' = IF s.cacheIt THEN [cache EXCEPT ![k] = s.res] ELSE cache
     /\ calls' = IF s.wait THEN Add(s.c) ELSE calls
     /\ last' = IF s.wait THEN last ELSE Settle(s.c, 0, s.res)
  /\ UNCHANGED <<genAI, today>>

\* the timer of withRateLimit fires (lines 279-282) and the caller goes on:
\* generateResumeContentWithAI makes its first attempt, or throws at line
\* 619 on a request without personalInfo
RateLimitWake(c) ==
  /\ c \in InFlight
  /\ c.pc = "rl_sleep"
  /\ c.op = "GRC"
  /\ now >= c.wake
  /\ SetGovernor(reserveSlot(Governor, now))
  /\ LET d == [c EXCEPT !.reserved = c.reserved + 1, !.wake = 0] IN
     IF c.personalInfo
       THEN /\ calls' = Replace(c, Invoke(d))
            /\ UNCHANGED <<circuitState, failureCount, nextTry, cache, last>>
       ELSE /\ SetBreaker(breakerFailure(Breaker, now))
            /\ cache' = [cache EXCEPT ![c.key] = ResumeLocalResult]
            /\ calls' = Remove(c)
            /\ last' = Settle(d, 0, ResumeLocalResult)
  /\ UNCHANGED <<genAI, today>>

\* resumeSettled without the try/catch of generateResumeContent: the error
\* of the last attempt reaches the caller
resumeSettled_uncaught(c, o, b) ==
  IF o = "ok"
    THEN [b |-> breakerSuccess(b), wait |-> FALSE, c |-> c,
          res |-> ResumeAIResult, cacheIt |-> TRUE]
    ELSE IF c.retryCount = resumeMaxRetries - 1
      THEN [b |-> breakerFailure(b, now), wait |-> FALSE, c |-> c,
            res |-> Rejected("remote"), cacheIt |-> FALSE]
      ELSE [b |-> b, wait |-> TRUE,
            c |-> [c EXCEPT !.pc = "backoff", !.wake = now + resumeRetryDelay],
            res |-> NoResult, cacheIt |-> FALSE]

\* generateResumeContentWithAI after Promise.race settled (lines 782-816),
\* then withCircuitBreaker (298-311) and generateResumeContent (598-609)
resumeSettled(c, o, b) ==
  IF o = "ok"
    THEN [b |-> breakerSuccess(b), wait |-> FALSE, c |-> c,
          res |-> ResumeAIResult, cacheIt |-> TRUE]
    ELSE IF o \in ShapeOutcomes
      THEN [b |-> breakerSuccess(b), wait |-> FALSE, c |-> c,
            res |-> Incompatible(ResumeAIResult), cacheIt |-> TRUE]
    ELSE IF c.retryCount = resumeMaxRetries - 1
      THEN [b |-> breakerFailure(b, now), wait |-> FALSE, c |-> c,
            res |-> ResumeLocalResult, cacheIt |-> TRUE]
      ELSE [b |-> b, wait |-> TRUE,
            c |-> [c EXCEPT !.pc = "backoff", !.wake = now + resumeRetryDelay],
            res |-> NoResult, cacheIt |-> FALSE]

\* atsSettled with a loop that gives up one attempt later
atsSettled_extra(c, o, b) ==
  IF o = "ok"
    THEN [b |-> breakerSuccess(b), wait |-> FALSE, c |-> c,
          res |-> ATSAIResult, cacheIt |-> FALSE]
    ELSE IF c.retryCount = atsMaxRetries
      THEN [b |-> breakerFailure(b, now), wait |-> FALSE, c |-> c,
            res |-> ATSLocalResult, cacheIt |-> FALSE]
      ELSE [b |-> b, wait |-> TRUE,
            c |-> [c EXCEPT !.pc = "backoff", !.wake = now + atsRetryDelay],
            res |-> NoResult, cacheIt |-> FALSE]

\* computeATSScoreWithAI after Promise.race settled (lines 1247-1285),
\* then withCircuitBreaker and computeATSScore (1183-1188)
atsSettled(c, o, b) ==
  IF o = "ok"
    THEN [b |-> breakerSuccess(b), wait |-> FALSE, c |-> c,
          res |-> ATSAIResult, cacheIt |-> FALSE]
    \* parsed.score of line 1271 throws on null and reads undefined elsewhere
    ELSE IF o = "badshape"
      THEN [b |-> breakerSuccess(b), wait |-> FALSE, c |-> c,
            res |-> Incompatible(ATSAIResult), cacheIt |-> FALSE]
    ELSE IF c.retryCount = atsMaxRetries - 1
      THEN [b |-> breakerFailure(b, now), wait |-> FALSE, c |-> c,
            res |-> ATSLocalResult, cacheIt |-> FALSE]
      ELSE [b |-> b, wait |-> TRUE,
            c |-> [c EXCEPT !.pc = "backoff", !.wake = now + atsRetryDelay],
            res |-> NoResult, cacheIt |-> FALSE]

\* generateProfileSummary after Promise.race settled (lines 378-389): the
\* text is used as it is, and the catch returns the local summary, so fn
\* always returns to withCircuitBreaker
summarySettled(c, o, b) ==
  IF o \in {"ok", "badjson"}
    THEN [b |-> breakerSuccess(b), wait |-> FALSE, c |-> c,
          res |-> SummaryAIResult, cacheIt |-> FALSE]
    ELSE [b |-> breakerSuccess(b), wait |-> FALSE, c |-> c,
          res |-> SummaryLocalResult, cacheIt |-> FALSE]

\* enhanceSection after model.generateContent settled (lines 551-579)
sectionSettled(c, o, b) ==
  IF o \in {"ok", "badjson"}
    THEN [b |-> b, wait |-> FALSE, c |-> c, res |-> SectionAIResult,
          cacheIt |-> FALSE]
    ELSE IF o = "e503" /\ c.retryCount < sectionMaxRetries - 1
      THEN [b |-> b, wait |-> TRUE,
            c |-> [c EXCEPT !.pc = "backoff",
                     !.wake = now + sectionRetryDelay * (2 ^ c.retryCount)],
            res |-> NoResult, cacheIt |-> FALSE]
      ELSE [b |-> b, wait |-> FALSE, c |-> c, res |-> SectionFailedResult,
            cacheIt |-> FALSE]

\* reviewResume after model.generateContent settled (lines 1166-1172): the
\* text is returned as it is, an error is replaced by one of its own
reviewSettled(c, o, b) ==
  IF o \in {"ok", "badjson"}
    THEN [b |-> b, wait |-> FALSE, c |-> c, res |-> ReviewResult,
          cacheIt |-> FALSE]
    ELSE [b |-> b, wait |-> FALSE, c |-> c, res |-> Rejected("review"),
          cacheIt |-> FALSE]

settled(c, o, b) ==
  CASE c.op = "GRC" -> resumeSettled(c, o, b)
    [] c.op = "ATS" -> atsSettled(c, o, b)
    [] c.op = "PS" -> summarySettled(c, o, b)
    [] c.op = "RR" -> reviewSettled(c, o, b)
    [] OTHER -> sectionSettled(c, o, b)

\* the provider answers or throws, or the timeout of Promise.race fires
\* (enhanceSection and reviewResume set no timeout)
RemoteResponds(c, o) ==
  /\ c \in InFlight
  /\ c.pc = "remote"
  /\ c.op \in {"GRC", "ATS", "PS", "ES", "RR"}
  /\ o = "timeout" => c.op \notin {"ES", "RR"}
  /\ LET s == settled(c, o, Breaker) IN
     /\ SetBreaker(s.b)
     /\ cache' = IF s.cacheIt THEN [cache EXCEPT ![c.key] = s.res] ELSE cache
     /\ calls' = IF s.wait THEN Replace(c, s.c) ELSE Remove(c)
     /\ last' = IF s.wait THEN last ELSE Settle(c, c.retryCount + 1, s.res)
  /\ UNCHANGED <<genAI, lastApiCall, dailyCallCount, lastResetDate, today>>

\* the back-off timer fires and the loop makes its next attempt
\* (lines 814-815, 1283-1284, 556-558)
BackoffWake(c) ==
  /\ c \in InFlight
  /\ c.pc = "backoff"
  /\ now >= c.wake
  /\ calls' = Replace(c, Invoke([c EXCEPT !.retryCount = c.retryCount + 1,
                                          !.wake = 0]))
  /\ UNCHANGED <<genAI, circuitState, failureCount, nextTry, cache,
                 lastApiCall, dailyCallCount, lastResetDate, today, last>>

\* ------------------------------------------------------- computeATSScore
\* lines 1175-1189 up to the first wait
atsStart(cred, b, g, day) ==
  LET c0 == [NewCall("ATS", 0) EXCEPT !.wrapped = TRUE]
      avail == isAvailable(cred, b, g, day)
      g1 == governorAfterAvailable(cred, b, g, day)
      be == breakerEnter(b, now)
  IN
  IF avail /\ b.circuitState # "OPEN"
    THEN IF be.pass
      THEN [b |-> be.b, g |-> g1, wait |-> TRUE, c |-> Invoke(c0),
            res |-> NoResult]
      ELSE [b |-> be.b, g |-> g1, wait |-> FALSE, c |-> c0,
            res |-> ATSLocalResult]
    ELSE [b |-> b, g |-> g1, wait |-> FALSE, c |-> c0,
          res |-> ATSLocalResult]

\* ------------------------------------------------ generateProfileSummary
\* summaryStart that enters withCircuitBreaker without asking isAvailable
summaryStart_eager(cred, b, g, day) ==
  LET c0 == [NewCall("PS", 0) EXCEPT !.wrapped = TRUE]
      be == breakerEnter(b, now)
  IN
  IF be.pass
    THEN [b |-> be.b, g |-> g, wait |-> TRUE, c |-> Invoke(c0),
          res |-> NoResult]
    ELSE [b |-> be.b, g |-> g, wait |-> FALSE, c |-> c0,
          res |-> Rejected("unavailable")]

\* lines 330-376 up to the first wait
summaryStart(cred, b, g, day) ==
  LET c0 == [NewCall("PS", 0) EXCEPT !.wrapped = TRUE]
      avail == isAvailable(cred, b, g, day)
      g1 == governorAfterAvailable(cred, b, g, day)
      be == breakerEnter(b, now)
  IN
  IF avail
    THEN IF be.pass
      THEN [b |-> be.b, g |-> g1, wait |-> TRUE, c |-> Invoke(c0),
            res |-> NoResult]
      ELSE [b |-> be.b, g |-> g1, wait |-> FALSE, c |-> c0,
            res |-> Rejected("unavailable")]
    ELSE [b |-> b, g |-> g1, wait |-> FALSE, c |-> c0,
          res |-> SummaryLocalResult]

\* ----------------------------------------------- enhanceMultipleSections
\* lines 418-453: fn makes no call to the provider and returns at once
sectionsStart(cred, b, g, day) ==
  LET c0 == [NewCall("EMS", 0) EXCEPT !.wrapped = TRUE]
      avail == isAvailable(cred, b, g, day)
      g1 == governorAfterAvailable(cred, b, g, day)
      be == breakerEnter(b, now)
  IN
  IF avail
    THEN IF be.pass
      THEN [b |-> breakerSuccess(be.b), g |-> g1, wait |-> FALSE, c |-> c0,
            res |-> SectionsLocalResult]
      ELSE [b |-> be.b, g |-> g1, wait |-> FALSE, c |-> c0,
            res |-> Rejected("unavailable")]
    ELSE [b |-> b, g |-> g1, wait |-> FALSE, c |-> c0,
          res |-> SectionsLocalResult]

\* -------------------------------------------------------- enhanceSection
\* lines 486-551 up to the first wait
sectionStart(cred, b, g, day) ==
  LET c0 == NewCall("ES", 0)
      avail == isAvailable(cred, b, g, day)
      g1 == governorAfterAvailable(cred, b, g, day)
  IN
  IF avail
    THEN [b |-> b, g |-> g1, wait |-> TRUE, c |-> Invoke(c0),
          res |-> NoResult]
    ELSE [b |-> b, g |-> g1, wait |-> FALSE, c |-> c0,
          res |-> SectionUnavailableResult]

\* ---------------------------------------------------------- reviewResume
\* lines 1141-1166 up to the first wait: without a credential
\* this.genAI.getGenerativeModel throws inside the try
reviewStart(cred, b, g) ==
  LET c0 == NewCall("RR", 0) IN
  IF cred
    THEN [b |-> b, g |-> g, wait |-> TRUE, c |-> Invoke(c0),
          res |-> NoResult]
    ELSE [b |-> b, g |-> g, wait |-> FALSE, c |-> c0,
          res |-> Rejected("review")]

\* a start that touches no cache
Begin(s) ==
  /\ Room
  /\ SetBreaker(s.b)
  /\ SetGovernor(s.g)
  /\ calls' = IF s.wait THEN Add(s.c) ELSE calls
  /\ last' = IF s.wait THEN last ELSE Settle(s.c, 0, s.res)
  /\ UNCHANGED <<genAI, cache, today>>

ComputeATSScore == Begin(atsStart(genAI, Breaker, Governor, today))

GenerateProfileSummary == Begin(summaryStart(genAI, Breaker, Governor, today))

EnhanceMultipleSections ==
  Begin(sectionsStart(genAI, Breaker, Governor, today))

EnhanceSection == Begin(sectionStart(genAI, Breaker, Governor, today))

ReviewResume == Begin(reviewStart(genAI, Breaker, Governor))

\* ------------------------------------------------------------ environment
Max(a, b) == IF a >= b THEN a ELSE b

SetMin(S) == CHOOSE x \in S : \A y \in S : x <= y

\* the instants, from now on, at which something the code reads changes: a
\* timer falls due, the rate-limit interval has passed, the cool-down
\* reaches its last millisecond, the cool-down has passed
Instants ==
  {c.wake : c \in {x \in InFlight : HasTimer(x)}}
    \cup (IF lastApiCall > -minCallInterval
            THEN {lastApiCall + minCallInterval} ELSE {})
    \cup (IF nextTry > 0 THEN {nextTry} ELSE {})
    \cup (IF nextTry >= 0 THEN {nextTry + 1} ELSE {})

Shift(c, e) == IF HasTimer(c) THEN [c EXCEPT !.wake = c.wake - e] ELSE c

\* the clock advances to the next of these instants; a timer that is due
\* runs before the clock moves on
Tick ==
  /\ Instants # {}
  /\ LET e == SetMin(Instants) IN
     /\ e > 0
     /\ lastApiCall' = Max(lastApiCall - e, -minCallInterval)
     /\ nextTry' = Max(nextTry - e, -1)
     /\ calls' = [d \in {Shift(c, e) : c \in InFlight} |->
                    CopiesIn(CHOOSE c \in InFlight : Shift(c, e) = d, calls)]
  /\ UNCHANGED <<genAI, circuitState, failureCount, cache, dailyCallCount,
                 lastResetDate, today, last>>

\* midnight passes
NewDay ==
  /\ today < MaxDay
  /\ today' = today + 1
  /\ UNCHANGED <<genAI, circuitState, failureCount, nextTry, cache,
                 lastApiCall, dailyCallCount, lastResetDate, calls, last>>

Next ==
  \/ \E data \in Requests : GenerateResumeContent(data)
  \/ \E c \in InFlight : RateLimitWake(c)
  \/ \E c \in InFlight, o \in RemoteOutcomes : RemoteResponds(c, o)
  \/ \E c \in InFlight : BackoffWake(c)
  \/ ComputeATSScore
  \/ GenerateProfileSummary
  \/ EnhanceMultipleSections
  \/ EnhanceSection
  \/ ReviewResume
  \/ Tick

Spec == Init /\ [][Next]_vars

\* Spec with the scheduling Node gives: a timer that is due fires, the clock
\* goes on, and every attempt on the provider returns, fails or times out
SpecLive ==
  /\ Init
  /\ [][Next]_vars
  /\ WF_vars(\E c \in InFlight, o \in RemoteOutcomes : RemoteResponds(c, o))
  /\ WF_vars(\E c \in InFlight : RateLimitWake(c))
  /\ WF_vars(\E c \in InFlight : BackoffWake(c))
  /\ WF_vars(Tick)

\* generateResumeContent and computeATSScore with a provider whose text
\* never parses, not even after scrubJsonText: JSON.parse throws at lines
\* 800 and 1263 on every attempt
NextParse ==
  \/ \E data \in Requests : GenerateResumeContent(data)
  \/ ComputeATSScore
  \/ \E c \in InFlight : RateLimitWake(c)
  \/ \E c \in InFlight : RemoteResponds(c, "badjson")
  \/ \E c \in InFlight : BackoffWake(c)
  \/ Tick

SpecParse == Init /\ [][NextParse]_vars

\* generateResumeContent and computeATSScore with a provider whose text
\* parses, and never to the JSON asked for
NextShape ==
  \/ \E data \in Requests : GenerateResumeContent(data)
  \/ ComputeATSScore
  \/ \E c \in InFlight : RateLimitWake(c)
  \/ \E c \in InFlight, o \in ShapeOutcomes : RemoteResponds(c, o)
  \/ \E c \in InFlight : BackoffWake(c)
  \/ Tick

SpecShape == Init /\ [][NextShape]_vars

\* ------------------------------------------- withCircuitBreaker, directly
\* withCircuitBreaker(fn) up to the call of fn (lines 286-297); fn is one
\* call to the provider
wrappedStart(b) ==
  LET c0 == [NewCall("CB", 0) EXCEPT !.wrapped = TRUE,
                                    !.trial = (b.circuitState = "OPEN")]
      be == breakerEnter(b, now)
  IN
  IF be.pass
    THEN [b |-> be.b, wait |-> TRUE, c |-> Invoke(c0), res |-> NoResult]
    ELSE [b |-> be.b, wait |-> FALSE, c |-> c0,
          res |-> Rejected("unavailable")]

\* withCircuitBreaker(fn) after fn settled (lines 298-311)
wrappedSettled(c, ok, b) ==
  IF ok
    THEN [b |-> breakerSuccess(b),
          res |-> Resolved({}, "absent", "ai", "none")]
    ELSE [b |-> breakerFailure(b, now), res |-> Rejected("remote")]

WithCircuitBreaker ==
  /\ Room
  /\ failureCount < MaxFailures
  /\ LET s == wrappedStart(Breaker) IN
     /\ SetBreaker(s.b)
     /\ calls' = IF s.wait THEN Add(s.c) ELSE calls
     /\ last' = IF s.wait THEN last ELSE Settle(s.c, 0, s.res)
  /\ UNCHANGED <<genAI, cache, lastApiCall, dailyCallCount, lastResetDate,
                 today>>

WrappedCallSettles(c, ok) ==
  /\ c \in InFlight
  /\ c.op = "CB"
  /\ c.pc = "remote"
  /\ LET s == wrappedSettled(c, ok, Breaker) IN
     /\ SetBreaker(s.b)
     /\ calls' = Remove(c)
     /\ last' = Settle(c, 1, s.res)
  /\ UNCHANGED <<genAI, cache, lastApiCall, dailyCallCount, lastResetDate,
                 today>>

NextCB ==
  \/ WithCircuitBreaker
  \/ \E c \in InFlight, ok \in BOOLEAN : WrappedCallSettles(c, ok)
  \/ Tick

SpecCB == Init /\ [][NextCB]_vars

\* ------------------------------------------------ withRateLimit, directly
\* withRateLimit() up to its wait (lines 276-282)
rateLimitStart(g) ==
  LET c0 == NewCall("RL", 0)
      d == rateLimitDelay(g, now)
  IN
  IF d > 0
    THEN [g |-> g, wait |-> TRUE,
          c |-> [c0 EXCEPT !.pc = "rl_sleep", !.wake = now + d]]
    ELSE [g |-> reserveSlot(g, now), wait |-> FALSE,
          c |-> [c0 EXCEPT !.reserved = 1]]

SlotTaken == Resolved({}, "absent", "none", "none")

WithRateLimit ==
  /\ Room
  /\ dailyCallCount < MaxDailyCalls
  /\ LET s == rateLimitStart(Governor) IN
     /\ SetGovernor(s.g)
     /\ calls' = IF s.wait THEN Add(s.c) ELSE calls
     /\ last' = IF s.wait THEN last ELSE Settle(s.c, 0, SlotTaken)
  /\ UNCHANGED <<genAI, circuitState, failureCount, nextTry, cache, today>>

\* the timer of a direct withRateLimit() fires (lines 279-282)
SlotWake(c) ==
  /\ c \in InFlight
  /\ c.pc = "rl_sleep"
  /\ c.op = "RL"
  /\ now >= c.wake
  /\ SetGovernor(reserveSlot(Governor, now))
  /\ calls' = Remove(c)
  /\ last' = Settle([c EXCEPT !.reserved = c.reserved + 1], 0, SlotTaken)
  /\ UNCHANGED <<genAI, circuitState, failureCount, nextTry, cache, today>>

NextGov ==
  \/ WithRateLimit
  \/ \E c \in InFlight : SlotWake(c)
  \/ \E data \in Requests : GenerateResumeContent(data)
  \/ \E c \in InFlight : RateLimitWake(c)
  \/ \E c \in InFlight, o \in RemoteOutcomes : RemoteResponds(c, o)
  \/ \E c \in InFlight : BackoffWake(c)
  \/ Tick
  \/ NewDay

SpecGov == Init /\ [][NextGov]_vars

\* --------------------------------------------------- IEEE 754 doubles
\* The numbers of calculateResumeCompleteness are sums of hundredths.  A
\* double near n/100 is kept as [n, d]: it is n/100 + d * Unit, with
\* Unit = 2^-62 / 25, so that every double in 1/128 .. 2 and the distance of
\* every n/100 to the doubles around it are whole numbers of units.

\* 2^e mod m, without computing 2^e
RECURSIVE PowMod2(_, _)
PowMod2(e, m) ==
  IF e = 0 THEN 1 % m
  ELSE IF e % 2 = 1 THEN (2 * PowMod2(e - 1, m)) % m
  ELSE LET h == PowMod2(e \div 2, m) IN (h * h) % m

\* the binade of n/100 + e units: the k in -7..0 with 2^k <= x < 2^(k+1)
RECURSIVE BinadeFrom(_, _, _)
BinadeFrom(k, n, e) ==
  IF k = -7 \/ n * 2 ^ (-k) > 100 \/ (n * 2 ^ (-k) = 100 /\ e >= 0)
    THEN k
    ELSE BinadeFrom(k - 1, n, e)

Binade(n, e) == BinadeFrom(0, n, e)

\* the distance between neighbouring doubles of binade k, in units
UlpUnits(k) == 25 * 2 ^ (10 + k)

\* how far n/100 lies above the double below it, in units
GridOffset(n, k) == ((n * PowMod2(52 - k, 100)) % 100) * 2 ^ (8 + k)

\* whether the double at or below n/100 + e units has an odd significand
OddBelow(n, e, k) ==
  LET q == ((n * PowMod2(52 - k, 200)) % 200) \div 100
      carry == (GridOffset(n, k) + e) \div UlpUnits(k)
  IN (q + carry) % 2 = 1

\* round to nearest, ties to even (tieUp: the exact value lies just above
\* n/100 + e units, so that a tie goes up): the d of the double next to
\* n/100 + e units
RoundToDouble(n, e, tieUp) ==
  IF n = 0 THEN e
  ELSE
  LET k == Binade(n, e)
      ulp == UlpUnits(k)
      p == (GridOffset(n, k) + e) % ulp
  IN IF p = 0 THEN e
     ELSE IF 2 * p < ulp THEN e - p
     ELSE IF 2 * p > ulp THEN e + (ulp - p)
     ELSE IF tieUp \/ OddBelow(n, e, k) THEN e + (ulp - p)
     ELSE e - p

\* the literal n/100 of the source, as the double it denotes
Double(n) == [n |-> n, d |-> RoundToDouble(n, 0, FALSE)]

\* x + y in doubles
Plus(x, y) == [n |-> x.n + y.n, d |-> RoundToDouble(x.n + y.n, x.d + y.d, FALSE)]

\* x / y in doubles, for a divisor within a few ulps of 1: x / (1 + t) is
\* x - x * t and a remainder that is positive and far below one unit
DividedBy(x, y) ==
  [n |-> x.n, d |-> RoundToDouble(x.n, x.d - (x.n * y.d) \div 100, y.d # 0)]

\* x < y in doubles
LessThan(x, y) == x.n < y.n \/ (x.n = y.n /\ x.d < y.d)

\* ---------------------------------------------- computeATSScoreLocally
MaxTextBlocks == 3
NumDraws == 15

\* the sections calculateResumeCompleteness looks for
Sections == {"summary", "email", "phone", "education", "experience",
             "technical", "projects", "achievements"}

\* a resume: the sections it has, and the characters of its text fields
\* in blocks of 2500
Resumes ==
  {[has |-> h, blocks |-> n] :
     h \in SUBSET Sections, n \in 0..MaxTextBlocks}

\* Math.random(): the draw i stands for i / NumDraws
Draws == 0..(NumDraws - 1)

\* Math.floor(Math.random() * m)
FloorOfRandomTimes(random, m) == (random * m) \div NumDraws

\* completeness += w if the section is there (lines 1336-1370), in hundredths
Credit(resumeData, section, w, acc) ==
  IF section \in resumeData.has THEN Plus(acc, Double(w)) ELSE acc

calculateResumeCompleteness(resumeData) ==
  LET c1 == Credit(resumeData, "summary", 10, Double(0))
      c2 == Credit(resumeData, "email", 5, c1)
      c3 == Credit(resumeData, "phone", 5, c2)
      c4 == Credit(resumeData, "education", 20, c3)
      c5 == Credit(resumeData, "experience", 20, c4)
      c6 == Credit(resumeData, "technical", 15, c5)
      c7 == Credit(resumeData, "projects", 15, c6)
      completeness == Credit(resumeData, "achievements", 10, c7)
      t1 == Plus(Double(0), Double(20))
      t2 == Plus(t1, Double(20))
      t3 == Plus(t2, Double(20))
      t4 == Plus(t3, Double(15))
      t5 == Plus(t4, Double(15))
      totalChecks == Plus(t5, Double(10))
  IN DividedBy(completeness, totalChecks)

calculateResumeLength(resumeData) == 2500 * resumeData.blocks

\* Math.round of a number of thousandths
Round1000(v) == (v + 500) \div 1000

\* lengthBonus without its cap
lengthBonus_uncapped(resumeLength) == resumeLength

\* Math.min(resumeLength / 1000, 5), in thousandths
lengthBonus(resumeLength) ==
  IF resumeLength < 5000 THEN resumeLength ELSE 5000

\* the score of lines 1290-1329; the high band is computed in thousandths
computeATSScoreLocally(resumeData, random) ==
  LET completenessScore == calculateResumeCompleteness(resumeData) IN
  IF LessThan(completenessScore, Double(40))
    THEN FloorOfRandomTimes(random, 15) + 35
    ELSE LET resumeLength == calculateResumeLength(resumeData)
             baseScore == FloorOfRandomTimes(random, 11) + 70
             sum == 1000 * baseScore + lengthBonus(resumeLength)
             score == IF sum < 80000 THEN sum ELSE 80000
         IN Round1000(score)

\* computeATSScoreLocally called with a resume.  The method reads and
\* writes no state of the service, so one call per run shows all it does.
ComputeATSScoreLocally(resumeData, random) ==
  /\ last = NoCall
  /\ last' = [Settle(NewCall("ATSL", 0), 0, ATSLocalResult) EXCEPT
                !.out = [args |-> <<resumeData, random>>,
                         value |-> computeATSScoreLocally(resumeData, random)]]
  /\ UNCHANGED <<genAI, circuitState, failureCount, nextTry, cache,
                 lastApiCall, dailyCallCount, lastResetDate, today, calls>>

NextScore ==
  \E resumeData \in Resumes, random \in Draws :
    ComputeATSScoreLocally(resumeData, random)

SpecScore == Init /\ [][NextScore]_vars

\* --------------------------------------- keywords of the local ATS result
MaxWords == 2

\* the words a summary is split into and the entries of skills.technical
Vocabulary == {"React", "react", "api", "node", "javascript", "python"}

\* the property names a request can give as targetRole: the four of the
\* table, one that is not in it, none, and one that every object inherits
\* from Object.prototype
Roles ==
  {"Software Engineer", "Frontend Developer", "Backend Developer",
   "Full Stack Developer", "Data Scientist", "absent", "constructor"}

WordLists == UNION {[1..n -> Vocabulary] : n \in 0..MaxWords}

\* the part of a resume extractKeywords reads; the empty list stands for a
\* missing or empty summary, and for missing or empty skills.technical
KeywordResumes == [summary : WordLists, technical : WordLists]

\* String.prototype.toLowerCase
toLowerCase(word) == IF word = "React" THEN "react" ELSE word

\* word.length
Length(word) ==
  CASE word \in {"api"} -> 3
    [] word \in {"node"} -> 4
    [] word \in {"React", "react"} -> 5
    [] word \in {"python"} -> 6
    [] OTHER -> 10

\* Set.prototype.add on a Set kept in insertion order
SetAdd(keywords, word) ==
  IF \E i \in DOMAIN keywords : keywords[i] = word
    THEN keywords ELSE Append(keywords, word)

\* lines 1449-1454
RECURSIVE AddSummaryWords(_, _)
AddSummaryWords(keywords, words) ==
  IF words = <<>> THEN keywords
  ELSE AddSummaryWords(
         IF Length(Head(words)) > 3
           THEN SetAdd(keywords, toLowerCase(Head(words))) ELSE keywords,
         Tail(words))

\* lines 1457-1459
RECURSIVE AddSkills(_, _)
AddSkills(keywords, skills) ==
  IF skills = <<>> THEN keywords
  ELSE AddSkills(SetAdd(keywords, toLowerCase(Head(skills))), Tail(skills))

extractKeywords(resumeData) ==
  AddSkills(AddSummaryWords(<<>>, resumeData.summary), resumeData.technical)

\* roleKeywords[role]: the list of the table, undefined for a name that is
\* no property, and the inherited Object function for 'constructor'
roleKeywords(role) ==
  CASE role = "Software Engineer" ->
         <<"javascript", "react", "node", "git", "api", "database", "html",
           "css">>
    [] role = "Frontend Developer" ->
         <<"javascript", "react", "html", "css", "redux", "webpack",
           "responsive">>
    [] role = "Backend Developer" ->
         <<"node", "express", "mongodb", "sql", "api", "rest", "graphql">>
    [] role = "Full Stack Developer" ->
         <<"javascript", "react", "node", "express", "mongodb", "sql",
           "git">>
    [] role = "constructor" -> "function"
    [] OTHER -> "undefined"

\* lines 1465-1476; expectedKeywords.filter is not a function when the
\* look-up gave the inherited property
getMissingKeywords(role, keywords) ==
  LET found == roleKeywords(role)
      expectedKeywords ==
        IF found = "undefined" THEN roleKeywords("Software Engineer")
        ELSE found
      Missing(keyword) ==
        \A i \in DOMAIN keywords :
          toLowerCase(keywords[i]) # toLowerCase(keyword)
  IN IF expectedKeywords = "function" THEN "TypeError"
     ELSE SelectSeq(expectedKeywords, Missing)

\* Array.prototype.slice(0, n)
Slice(list, n) == SubSeq(list, 1, IF Len(list) < n THEN Len(list) ELSE n)

\* the keyword fields of the result of computeATSScoreLocally (lines
\* 1317-1324)
localKeywords(resumeData, targetRole) ==
  LET keywords == extractKeywords(resumeData)
      missingKeywords == getMissingKeywords(targetRole, keywords)
  IN IF missingKeywords = "TypeError"
       THEN [result |-> Rejected("TypeError"), keywordsMatched |-> <<>>,
             keywordsMissing |-> <<>>]
       ELSE [result |-> ATSLocalResult,
             keywordsMatched |-> Slice(keywords, 5),
             keywordsMissing |-> Slice(missingKeywords, 5)]

\* computeATSScoreLocally called for the keywords of its result
LocalKeywords(resumeData, targetRole) ==
  /\ last = NoCall
  /\ last' = [Settle(NewCall("KW", 0), 0,
                      localKeywords(resumeData, targetRole).result) EXCEPT
                !.out = [args |-> <<resumeData, targetRole>>,
                         value |-> localKeywords(resumeData, targetRole)]]
  /\ UNCHANGED <<genAI, circuitState, failureCount, nextTry, cache,
                 lastApiCall, dailyCallCount, lastResetDate, today, calls>>

NextKeywords ==
  last = NoCall /\ \E resumeData \in KeywordResumes, targetRole \in Roles :
                     LocalKeywords(resumeData, targetRole)

SpecKeywords == Init /\ [][NextKeywords]_vars

\* ------------------------------------------------------ local enrichment
MaxItems == 2

\* a text field of an item: left out by the caller, or populated by the
\* caller; the engine's own text is "generated", and "TypeError" stands for
\* the exception of reading a property of undefined
Texts == {"absent", "caller"}

Projects == [name : Texts, description : Texts, outcomes : Texts]

Achievements == [title : Texts, description : Texts]

Educations == [achievements : Texts, description : Texts]

Experiences == [position : Texts, achievements : Texts]

\* the arrays of n items
ListsOf(S, n) == [1..n -> S]

\* the lengths of the four arrays of a request of at most MaxItems items
Lengths ==
  {n \in [1..4 -> 0..MaxItems] : n[1] + n[2] + n[3] + n[4] <= MaxItems}

\* the part of a request that enhanceContentLocally and
\* enhanceSectionsLocally map over
Contents ==
  UNION {[isFresher : BOOLEAN, projects : ListsOf(Projects, n[1]),
          achievements : ListsOf(Achievements, n[2]),
          education : ListsOf(Educations, n[3]),
          experience : ListsOf(Experiences, n[4])] : n \in Lengths}

\* a || b
Or(a, b) == IF a # "absent" THEN a ELSE b

\* projectName.toLowerCase() and the table look-up
getProjectType(projectName) ==
  IF projectName = "absent" THEN "TypeError" ELSE "General"

getAchievementType(title) ==
  IF title = "absent" THEN "TypeError" ELSE "General"

getPositionType(position) ==
  IF position = "absent" THEN "TypeError" ELSE "General"

\* text made from the type of the item, or the exception of finding the type
TextFor(type) == IF type = "TypeError" THEN "TypeError" ELSE "generated"

enhanceProjectDescription(proj) ==
  IF proj.description # "absent" THEN proj.description
  ELSE TextFor(getProjectType(proj.name))

generateProjectOutcomes(proj) == TextFor(getProjectType(proj.name))

enhanceAchievementDescription(ach) ==
  IF ach.description # "absent" THEN ach.description
  ELSE TextFor(getAchievementType(ach.title))

generateExperienceAchievements(exp) == TextFor(getPositionType(exp.position))

generateEducationAchievements(edu) == "generated"

generateCourseSummary(education) == "generated"

\* the object literals of the map callbacks: { ...item, field: item.field ||
\* generated }
enhanceProject(proj) ==
  [proj EXCEPT !.description = Or(proj.description,
                                  enhanceProjectDescription(proj)),
               !.outcomes = Or(proj.outcomes, generateProjectOutcomes(proj))]

enhanceAchievement(ach) ==
  [ach EXCEPT !.description = Or(ach.description,
                                 enhanceAchievementDescription(ach))]

\* enhanceEducation that writes its course summary over the caller's text
enhanceEducation_overwrite(edu, education) ==
  [edu EXCEPT !.achievements = Or(edu.achievements,
                                  generateEducationAchievements(edu)),
              !.description = generateCourseSummary(education)]

enhanceEducation(edu, education) ==
  [edu EXCEPT !.achievements = Or(edu.achievements,
                                  generateEducationAchievements(edu)),
              !.description = Or(edu.description,
                                 generateCourseSummary(education))]

enhanceExperience(exp) ==
  [exp EXCEPT !.achievements = Or(exp.achievements,
                                  generateExperienceAchievements(exp))]

\* whether a callback threw while the list was mapped
Threw(items) ==
  \E i \in DOMAIN items : \E f \in DOMAIN items[i] : items[i][f] = "TypeError"

\* what a direct call returned: the result as the result objects above see
\* it, and the lists of its payload
Returned(res, projects, achievements, education, experience) ==
  [result |-> res, projects |-> projects, achievements |-> achievements,
   education |-> education, experience |-> experience]

Thrown == Returned(Rejected("TypeError"), <<>>, <<>>, <<>>, <<>>)

\* lines 821-879
enhanceContentLocally(data) ==
  LET education == [i \in DOMAIN data.education |->
                      enhanceEducation(data.education[i], data.education)]
      experience == IF data.isFresher THEN <<>>
                    ELSE [i \in DOMAIN data.experience |->
                            enhanceExperience(data.experience[i])]
      projects == [i \in DOMAIN data.projects |->
                     enhanceProject(data.projects[i])]
      achievements == [i \in DOMAIN data.achievements |->
                         enhanceAchievement(data.achievements[i])]
  IN IF Threw(education) \/ Threw(experience) \/ Threw(projects)
          \/ Threw(achievements)
       THEN Thrown
       ELSE Returned(ResumeLocalResult, projects, achievements, education,
                     experience)

\* lines 455-484: the sections are the projects, achievements and education
\* of the content
enhanceSectionsLocally(sections) ==
  LET projects == [i \in DOMAIN sections.projects |->
                     enhanceProject(sections.projects[i])]
      achievements == [i \in DOMAIN sections.achievements |->
                         enhanceAchievement(sections.achievements[i])]
  IN IF Threw(projects) \/ Threw(achievements)
       THEN Thrown
       ELSE Returned(SectionsLocalResult, projects, achievements, <<>>, <<>>)

\* direct calls of the two methods.  They read and write no state of the
\* service, so one call per run shows all they do.
DirectCall(op, args, value) ==
  /\ last = NoCall
  /\ last' = [Settle(NewCall(op, 0), 0, value.result) EXCEPT
                !.out = [args |-> args, value |-> value]]
  /\ UNCHANGED <<genAI, circuitState, failureCount, nextTry, cache,
                 lastApiCall, dailyCallCount, lastResetDate, today, calls>>

EnhanceContentLocally(data) ==
  DirectCall("ECL", data, enhanceContentLocally(data))

EnhanceSectionsLocally(sections) ==
  DirectCall("ESL", sections, enhanceSectionsLocally(sections))

NextLocal ==
  \/ last = NoCall /\ \E data \in Contents : EnhanceContentLocally(data)
  \/ last = NoCall /\ \E sections \in Contents :
                         EnhanceSectionsLocally(sections)

SpecLocal == Init /\ [][NextLocal]_vars

\* --------------------------------------------------------- scrubJsonText
MaxTextLen == 3

\* a text is a sequence of characters.  FenceJson and Fence are the two
\* code fence markers, three backticks with and without json, each kept as
\* one symbol; " " is white space that is no control character, "\n" is
\* both; "a" is any other character.
FenceJson == "fence-json"

Fence == "fence"

Chars == {"\"", "\\", "{", "}", "[", "]", ",", " ", "\n", "a",
          FenceJson, Fence}

InputTexts == UNION {[1..n -> Chars] : n \in 0..MaxTextLen}

IsSpace(ch) == ch \in {" ", "\n"}

IsControl(ch) == ch = "\n"

RECURSIVE TrimStart(_)
TrimStart(text) ==
  IF text # <<>> /\ IsSpace(Head(text)) THEN TrimStart(Tail(text)) ELSE text

RECURSIVE TrimEnd(_)
TrimEnd(text) ==
  IF text # <<>> /\ IsSpace(text[Len(text)])
    THEN TrimEnd(SubSeq(text, 1, Len(text) - 1))
    ELSE text

\* text.trim()
Trim(text) == TrimEnd(TrimStart(text))

\* the first replace of line 178: the opening marker at the start of the
\* text, and a newline after it
StripOpeningFence(text) ==
  IF text # <<>> /\ Head(text) = FenceJson
    THEN IF Len(text) >= 2 /\ text[2] = "\n"
           THEN SubSeq(text, 3, Len(text))
           ELSE Tail(text)
    ELSE text

\* the second replace of line 178: the closing marker at the end of the
\* text, and a newline before it
StripClosingFence(text) ==
  IF text # <<>> /\ text[Len(text)] = Fence
    THEN IF Len(text) >= 2 /\ text[Len(text) - 1] = "\n"
           THEN SubSeq(text, 1, Len(text) - 2)
           ELSE SubSeq(text, 1, Len(text) - 1)
    ELSE text

\* text.includes(pattern)
Includes(text, pattern) ==
  \E i \in 1..(Len(text) - Len(pattern) + 1) :
    SubSeq(text, i, i + Len(pattern) - 1) = pattern

\* .replace(/\\"/g, '"')
RECURSIVE UnescapeQuotes(_)
UnescapeQuotes(text) ==
  IF text = <<>> THEN <<>>
  ELSE IF Len(text) >= 2 /\ text[1] = "\\" /\ text[2] = "\""
    THEN <<"\"">> \o UnescapeQuotes(SubSeq(text, 3, Len(text)))
    ELSE <<Head(text)>> \o UnescapeQuotes(Tail(text))

\* lines 181-184
FixEscapedQuotes(text) ==
  IF Includes(text, <<"\\", "\"">>) /\ ~Includes(text, <<"\\", "\\", "\"">>)
    THEN UnescapeQuotes(text)
    ELSE text

\* .replace(/,\s*([}\]])/g, '$1'): matches are found from the left and do
\* not overlap
RECURSIVE RemoveTrailingCommas(_)
RemoveTrailingCommas(text) ==
  IF text = <<>> THEN <<>>
  ELSE LET rest == TrimStart(Tail(text)) IN
       IF Head(text) = "," /\ rest # <<>> /\ Head(rest) \in {"}", "]"}
         THEN <<Head(rest)>> \o RemoveTrailingCommas(Tail(rest))
         ELSE <<Head(text)>> \o RemoveTrailingCommas(Tail(text))

\* .replace(/(["}\]])\s*(["{])/g, '$1,$2')
RECURSIVE InsertMissingCommas(_)
InsertMissingCommas(text) ==
  IF text = <<>> THEN <<>>
  ELSE LET rest == TrimStart(Tail(text)) IN
       IF Head(text) \in {"\"", "}", "]"} /\ rest # <<>>
            /\ Head(rest) \in {"\"", "{"}
         THEN <<Head(text), ",", Head(rest)>>
                \o InsertMissingCommas(Tail(rest))
         ELSE <<Head(text)>> \o InsertMissingCommas(Tail(text))

\* .replace(/[\x00-\x1F\x7F]/g, '')
RemoveControlChars(text) == SelectSeq(text, LAMBDA ch : ~IsControl(ch))

\* (text.match(/ch/g) || []).length
Count(text, ch) == Len(SelectSeq(text, LAMBDA x : x = ch))

\* ch.repeat(n)
Repeat(ch, n) == [i \in 1..n |-> ch]

\* CloseOpenDelimiters that completes the braces and not the brackets
CloseOpenDelimiters_braces(text) ==
  LET openBraces == Count(text, "{")
      closeBraces == Count(text, "}")
  IN IF openBraces > closeBraces
       THEN text \o Repeat("}", openBraces - closeBraces)
       ELSE text

\* lines 195-208
CloseOpenDelimiters(text) ==
  LET openBraces == Count(text, "{")
      closeBraces == Count(text, "}")
      openBrackets == Count(text, "[")
      closeBrackets == Count(text, "]")
      braced == IF openBraces > closeBraces
                  THEN text \o Repeat("}", openBraces - closeBraces)
                  ELSE text
  IN IF openBrackets > closeBrackets
       THEN braced \o Repeat("]", openBrackets - closeBrackets)
       ELSE braced

\* .replace(/"(.*?)"\s*\n\s*"(.*?)"$/g, '"$1","$2"'): the pattern needs a
\* "\n", and none is left once the control characters are removed
FixUnescapedNewlines(text) == text

\* lines 213-217
CloseOpenString(text) ==
  IF Count(text, "\"") % 2 # 0 THEN text \o <<"\"">> ELSE text

\* lines 173-222
scrubJsonText(text) ==
  CloseOpenString(
    FixUnescapedNewlines(
      CloseOpenDelimiters(
        RemoveControlChars(
          InsertMissingCommas(
            RemoveTrailingCommas(
              FixEscapedQuotes(
                StripClosingFence(StripOpeningFence(Trim(text))))))))))

\* scrubJsonText called with a text
ScrubJsonText(text) ==
  DirectCall("SJT", text, [result |-> NoResult, text |-> scrubJsonText(text)])

\* scrubJsonText called with the text the last call returned
ScrubAgain ==
  /\ last.op = "SJT"
  /\ last' = [last EXCEPT
                !.op = "SJT2",
                !.out = [args |-> last.out.value.text,
                         value |-> [result |-> NoResult,
                                    text |->
                                      scrubJsonText(last.out.value.text)]]]
  /\ UNCHANGED <<genAI, circuitState, failureCount, nextTry, cache,
                 lastApiCall, dailyCallCount, lastResetDate, today, calls>>

NextScrub ==
  \/ \E text \in InputTexts : ScrubJsonText(text)
  \/ ScrubAgain

SpecScrub == Init /\ [][NextScrub]_vars

\* ================================================================= claims
PublicOps == {"GRC", "ATS", "PS", "EMS", "ES"}

\* a result the caller can use: resolved, not success = false, and produced
\* by the provider or by local synthesis
Populated(res) ==
  /\ res.kind = "resolved"
  /\ res.success # "false"
  /\ res.path \in {"ai", "local"}

\* the calls on which this step called model.generateContent
InvokedNow ==
  {c \in BagToSet(calls') :
     c.pc = "remote" /\ CopiesIn(c, calls') > CopiesIn(c, calls)}

\* this step took a slot from the governor
SlotTakenNow ==
  /\ lastApiCall' = now
  /\ \/ dailyCallCount' = dailyCallCount + 1
     \/ lastResetDate' # lastResetDate /\ dailyCallCount' = 1

\* what the next call of each public operation would do in this state
StartsNow ==
  {atsStart(genAI, Breaker, Governor, today),
   summaryStart(genAI, Breaker, Governor, today),
   sectionsStart(genAI, Breaker, Governor, today),
   sectionStart(genAI, Breaker, Governor, today)}

\* for a request with personalInfo whose fingerprint is k
ResumeStartNow(k) ==
  resumeStart([role |-> k, personalInfo |-> TRUE], genAI, Breaker, Governor,
              today, cache[k])

\* C1: whatever the provider does on each attempt (answer, unparsable text,
\* thrown error, timeout), every public operation resolves with a result
\* object; none rejects.
C1_NeverRejects ==
  last.op \in PublicOps =>
    last.result.kind = "resolved" /\ last.result.error = "none"

\* C1 witness: a resume call whose attempts all failed has resolved with the
\* local result
C1_Witness ==
  /\ last.op = "GRC"
  /\ last.attempts = resumeMaxRetries
  /\ last.result = ResumeLocalResult

\* C2 (as claimed): when the remote path is unavailable as an operation starts
\* (no credential, breaker OPEN, quota exhausted), every operation kind,
\* enhanceSection included, returns at once a successful, populated local
\* result, never success = false.
C2_UnavailableIsAbsorbed ==
  ~isAvailable(genAI, Breaker, Governor, today) =>
    /\ \A s \in StartsNow : ~s.wait /\ Populated(s.res)
    /\ \A k \in Keys : ~ResumeStartNow(k).wait
                         /\ Populated(ResumeStartNow(k).res)

\* C3 (as claimed): at the instant any operation calls the provider, first
\* attempt or retry, the breaker is not OPEN with its cool-down still running.
C3_NoAttemptWhileOpen ==
  [][InvokedNow # {} => ~(circuitState' = "OPEN" /\ now < nextTry')]_vars

\* C4: from CLOSED, the failure that brings failureCount to failureThreshold,
\* and no earlier one, opens the breaker with nextTry = now + resetTimeout;
\* while OPEN before nextTry a call through withCircuitBreaker is refused
\* without calling the wrapped function.
C4_OpensAtThreshold ==
  [][/\ (circuitState = "CLOSED" /\ failureCount' = failureCount + 1) =>
          IF failureCount' = failureThreshold
            THEN circuitState' = "OPEN" /\ nextTry' = now + resetTimeout
            ELSE circuitState' = "CLOSED" /\ failureCount' < failureThreshold
     /\ (circuitState = "OPEN" /\ now < nextTry) =>
          /\ InvokedNow = {}
          /\ ~wrappedStart(Breaker).wait
          /\ wrappedStart(Breaker).res = Rejected("unavailable")
          /\ wrappedStart(Breaker).b = Breaker
    ]_vars

\* C4 witness: the third failure has opened the breaker and a call made
\* during the cool-down was refused
C4_Witness ==
  /\ circuitState = "OPEN"
  /\ failureCount = failureThreshold
  /\ now < nextTry
  /\ last.op = "CB"
  /\ last.attempts = 0
  /\ last.result = Rejected("unavailable")

\* C5 (as claimed): once the breaker is OPEN and the cool-down has passed,
\* the next computeATSScore or uncached generateResumeContent call (credential
\* set, quota left) moves the breaker to HALF-OPEN and attempts the provider.
C5_OpenIsNotPermanent ==
  (/\ genAI
   /\ circuitState = "OPEN"
   /\ now > nextTry
   /\ ~isDailyLimitReached(Governor, today)) =>
    /\ LET s == atsStart(genAI, Breaker, Governor, today) IN
         s.b.circuitState = "HALF-OPEN" /\ s.wait
    /\ \A k \in Keys : cache[k] = NoResult =>
         ResumeStartNow(k).b.circuitState = "HALF-OPEN"
           /\ ResumeStartNow(k).wait

\* C6 (as claimed): while the breaker is HALF-OPEN, that is while the trial
\* call is pending, no further call through withCircuitBreaker calls its
\* wrapped function.
C6_OneTrialOnly ==
  [][circuitState = "HALF-OPEN" => InvokedNow = {}]_vars

\* C7 (as claimed): a wrapped call that succeeds while the breaker is CLOSED
\* leaves failureCount at 0.
C7_SuccessResetsCount ==
  [][(/\ circuitState = "CLOSED"
      /\ BagCardinality(calls') < BagCardinality(calls)
      /\ last'.op = "CB"
      /\ last'.result.kind = "resolved") => failureCount' = 0]_vars

\* C8: once dailyCallLimit slots are taken on a day, the governor reports
\* exhausted and an uncached generateResumeContent call takes no slot, makes
\* no attempt and returns the local result; on the next day the first check
\* sets the counter back to 0 with the date, and an uncached call (credential
\* set, breaker not OPEN) goes to the provider again, its slot counted from 0.
C8_QuotaPerDay ==
  /\ (dailyCallCount >= dailyCallLimit /\ today = lastResetDate) =>
       /\ isDailyLimitReached(Governor, today)
       /\ \A k \in Keys : cache[k] = NoResult =>
            /\ ~ResumeStartNow(k).wait
            /\ ResumeStartNow(k).g = Governor
            /\ ResumeStartNow(k).res = ResumeLocalResult
  /\ (today # lastResetDate) =>
       /\ dailyReset(Governor, today).dailyCallCount = 0
       /\ dailyReset(Governor, today).lastResetDate = today
       /\ ~isDailyLimitReached(Governor, today)
       /\ (genAI /\ circuitState # "OPEN") =>
            \A k \in Keys : cache[k] = NoResult =>
              /\ ResumeStartNow(k).wait
              /\ ResumeStartNow(k).c.pc \in {"rl_sleep", "remote"}
              /\ ResumeStartNow(k).g.lastResetDate = today
              /\ ResumeStartNow(k).g.dailyCallCount = ResumeStartNow(k).c.reserved

\* C8 witness: with the limit reached today, credential set and breaker
\* CLOSED, an uncached resume call has returned the local result without an
\* attempt or a slot
C8_Witness ==
  /\ genAI
  /\ circuitState = "CLOSED"
  /\ dailyCallCount = dailyCallLimit
  /\ lastResetDate = today
  /\ last.op = "GRC"
  /\ last.attempts = 0
  /\ last.reserved = 0
  /\ last.result = ResumeLocalResult
  /\ cache[last.key] = ResumeLocalResult

\* C9 (as claimed): every call to the provider, by any operation, comes after
\* a slot reservation made by the same operation.
C9_ReservedBeforeAttempt ==
  \A c \in InFlight : c.pc = "remote" => c.reserved >= 1

\* C10 (as claimed): any two slot reservations are at least minCallInterval
\* apart, under every interleaving of concurrent calls.
C10_ReservationsSpaced ==
  [][SlotTakenNow => now - lastApiCall >= minCallInterval]_vars

\* this step a generateResumeContent call took its slot and made its first
\* attempt
ResumeSlotNow == \E c \in InvokedNow : c.op = "GRC" /\ c.retryCount = 0

\* C11 (as claimed): under every interleaving of concurrent
\* generateResumeContent calls, a call that takes a slot leaves dailyCallCount
\* at most dailyCallLimit: two calls never both pass the quota check when one
\* slot remains.
C11_QuotaNeverExceeded ==
  [][ResumeSlotNow => dailyCallCount' <= dailyCallLimit]_vars

\* C12: dailyCallCount goes back to 0 only in a step that observes a day
\* other than lastResetDate, and that step sets lastResetDate to the day; in
\* every other step the counter does not decrease and the date stays.  (The
\* step that resets may take the first slot of the new day at once.)
C12_ResetOnlyOnNewDay ==
  [][IF dailyCallCount' < dailyCallCount \/ lastResetDate' # lastResetDate
       THEN /\ today # lastResetDate
            /\ lastResetDate' = today
            /\ dailyCallCount' \in {0, 1}
            /\ dailyCallCount' = 1 => SlotTakenNow
       ELSE dailyCallCount' >= dailyCallCount]_vars

\* C12 witness: a call that took its slot yesterday is still in flight, and
\* the counter has been set back to 0 with the date by a call of today
C12_Witness ==
  /\ today = 1
  /\ lastResetDate = today
  /\ dailyCallCount = 0
  /\ \E c \in InFlight : c.op = "GRC" /\ c.reserved = 1

\* a generateResumeContent call returned to its caller in this step
ResumeReturnsNow ==
  /\ last'.op = "GRC"
  /\ last' # last \/ BagCardinality(calls') < BagCardinality(calls)

CircuitStates == {"CLOSED", "OPEN", "HALF-OPEN"}

\* C13: a generateResumeContent call leaves the result it returns in the
\* cache under the fingerprint of its request; and a later call whose request
\* agrees with the first on the fingerprint fields, whatever its other
\* fields, returns what the cache holds under that fingerprint, with no
\* attempt, no slot and no change to breaker or governor, whatever the
\* credential, the breaker state and the quota are by then.
C13_SecondCallServedFromCache ==
  /\ [][ResumeReturnsNow =>
          /\ last'.result # NoResult
          /\ cache'[last'.key] = last'.result]_vars
  /\ [](\A d1 \in {d \in Requests : cache[getCacheKey(d)] # NoResult} :
          \A d2 \in {d \in Requests : d.role = d1.role} :
            \A cred \in BOOLEAN, cs \in CircuitStates,
               n \in {dailyCallCount, dailyCallLimit} :
              LET b == [Breaker EXCEPT !.circuitState = cs]
                  g == [Governor EXCEPT !.dailyCallCount = n]
                  s == resumeStart(d2, cred, b, g, today,
                                   cache[getCacheKey(d2)])
              IN /\ ~s.wait
                 /\ s.res = cache[getCacheKey(d1)]
                 /\ ~s.cacheIt
                 /\ s.b = b
                 /\ s.g = g)

\* C13 witness: a result of the provider was cached, the breaker has opened
\* since, and a call with the same fingerprint has returned the cached
\* result without an attempt
C13_Witness ==
  /\ circuitState = "OPEN"
  /\ last.op = "GRC"
  /\ last.attempts = 0
  /\ last.result = ResumeAIResult
  /\ cache[last.key] = ResumeAIResult

\* in this step an attempt on the provider failed or timed out: the call
\* that waited for the provider went to its back-off, or returned something
\* other than the provider's result
AttemptFailedNow ==
  \E c \in InFlight :
    /\ c.pc = "remote"
    /\ CopiesIn(c, calls') < CopiesIn(c, calls)
    /\ \/ \E d \in BagToSet(calls') :
            d.pc = "backoff" /\ CopiesIn(d, calls') > CopiesIn(d, calls)
       \/ /\ BagCardinality(calls') < BagCardinality(calls)
          /\ last'.result.path # "ai"

\* C14 (as claimed): in every operation, each attempt on the provider that
\* fails or times out increments failureCount, and nothing the attempt
\* produced is cached.
C14_FailedAttemptCounted ==
  [][AttemptFailedNow =>
       /\ failureCount' = failureCount + 1
       /\ \A k \in Keys : cache'[k] # cache[k] => cache'[k].path = "local"
    ]_vars

\* the most attempts an operation makes on the provider
\* (generateProfileSummary has no loop, enhanceMultipleSections no attempt)
MaxAttempts(op) ==
  CASE op = "GRC" -> resumeMaxRetries
    [] op = "ATS" -> atsMaxRetries
    [] op = "PS" -> 1
    [] op = "ES" -> sectionMaxRetries
    [] op = "RR" -> 1
    [] OTHER -> 0

\* the attempts a call in flight has made so far
AttemptsOf(c) == IF c.pc \in {"remote", "backoff"} THEN c.retryCount + 1 ELSE 0

AttemptsBounded ==
  /\ \A c \in InFlight : AttemptsOf(c) <= MaxAttempts(c.op)
  /\ last.op \in PublicOps => last.attempts <= MaxAttempts(last.op)

\* a call that waits was started in this step
CallStartedNow == BagCardinality(calls') > BagCardinality(calls)

\* C15: no operation makes more than its number of attempts (2 for
\* generateResumeContent and computeATSScore, 1 for generateProfileSummary, 3
\* for enhanceSection), and whatever the outcomes of the attempts the calls
\* in flight all return: unless calls keep being started for ever, there
\* comes a time after which none is in flight.
C15_BoundedAttemptsAndTermination ==
  /\ []AttemptsBounded
  /\ ([]<><<CallStartedNow>>_vars) \/ <>[](calls = EmptyBag)

\* C15 witness: an enhanceSection call has returned after its third attempt
C15_Witness ==
  /\ last.op = "ES"
  /\ last.attempts = sectionMaxRetries
  /\ last.result = SectionFailedResult

\* what an operation returns when it takes its local path: its result on a
\* service without credential
LocalResultOf(op) ==
  CASE op = "GRC" ->
         resumeStart([role |-> 1, personalInfo |-> TRUE], FALSE, Breaker,
                     Governor, today, NoResult).res
    [] op = "ATS" -> atsStart(FALSE, Breaker, Governor, today).res
    [] op = "PS" -> summaryStart(FALSE, Breaker, Governor, today).res
    [] OTHER -> sectionsStart(FALSE, Breaker, Governor, today).res

\* the same top-level fields and the same provenance field
SameSchema(r1, r2) == r1.fields = r2.fields /\ r1.tag = r2.tag

\* C16 (as claimed): a result an operation returns from the provider has the
\* same top-level fields, provenance field and timestamp field included, as
\* the result the same operation returns from its local path.
C16_SchemaIndependentOfPath ==
  (last.op \in {"GRC", "ATS", "PS"} /\ last.result.path = "ai") =>
    /\ LocalResultOf(last.op).path = "local"
    /\ SameSchema(last.result, LocalResultOf(last.op))

\* the weighted completeness of a resume in hundredths, as a number: the
\* weights of lines 1336-1370 over the sections it has
Weight(resumeData, section, w) == IF section \in resumeData.has THEN w ELSE 0

WeightedCompleteness(resumeData) ==
  Weight(resumeData, "summary", 10) + Weight(resumeData, "email", 5)
    + Weight(resumeData, "phone", 5) + Weight(resumeData, "education", 20)
    + Weight(resumeData, "experience", 20)
    + Weight(resumeData, "technical", 15)
    + Weight(resumeData, "projects", 15)
    + Weight(resumeData, "achievements", 10)

\* C17 (as claimed): computeATSScoreLocally returns a score in [35,50) when
\* the weighted completeness is below 0.4 and a score in [70,80] otherwise,
\* for every combination of sections, text length and random draw.
C17_BandByCompleteness ==
  last.op = "ATSL" =>
    IF WeightedCompleteness(last.out.args[1]) < 40
      THEN last.out.value \in 35..49
      ELSE last.out.value \in 70..80

\* C18 (as claimed): for every resume-content request with isFresher set
\* that the local path serves, no exception is raised, the result carries
\* the local provenance tag, and generatedContent.experience is the empty
\* list whatever experience the request carries.
C18_FresherLocalResult ==
  (last.op = "ECL" /\ last.out.args.isFresher) =>
    /\ last.result.kind = "resolved"
    /\ last.result.path = "local"
    /\ last.result.tag = "enhancementMethod"
    /\ last.out.value.experience = <<>>

\* every item is still there, each field the caller populated has the
\* caller's value, and a field the caller left out has stayed out or holds
\* generated text
OnlyGapsFilled(ins, outs) ==
  /\ DOMAIN outs = DOMAIN ins
  /\ \A i \in DOMAIN ins :
       /\ DOMAIN outs[i] = DOMAIN ins[i]
       /\ \A f \in DOMAIN ins[i] :
            IF ins[i][f] # "absent"
              THEN outs[i][f] = ins[i][f]
              ELSE outs[i][f] \in {"absent", "generated"}

\* C19: what enhanceContentLocally and enhanceSectionsLocally return keeps,
\* in every project, achievement and education item of the request, the value
\* of each field the caller populated; only fields that were empty receive
\* generated text.
C19_EnrichmentOnlyFillsGaps ==
  (last.op \in {"ECL", "ESL"} /\ last.result.kind = "resolved") =>
    /\ OnlyGapsFilled(last.out.args.projects, last.out.value.projects)
    /\ OnlyGapsFilled(last.out.args.achievements,
                      last.out.value.achievements)
    /\ last.op = "ECL" =>
         OnlyGapsFilled(last.out.args.education, last.out.value.education)

\* C19 witness: enhanceContentLocally has returned a project whose
\* description is the caller's and whose outcomes are generated, next to an
\* education item whose description is the caller's
C19_Witness ==
  /\ last.op = "ECL"
  /\ last.result = ResumeLocalResult
  /\ \E i \in DOMAIN last.out.args.projects :
       /\ last.out.args.projects[i].description = "caller"
       /\ last.out.args.projects[i].outcomes = "absent"
       /\ last.out.value.projects[i].description = "caller"
       /\ last.out.value.projects[i].outcomes = "generated"
  /\ \E i \in DOMAIN last.out.args.education :
       /\ last.out.args.education[i].description = "caller"
       /\ last.out.value.education[i].description = "caller"

\* C20 (as claimed): scrubJsonText is idempotent: applied to a text it has
\* returned, it returns that text.
C20_ScrubIsIdempotent ==
  last.op = "SJT2" => last.out.value.text = last.out.args

\* C21 (as claimed): every call of model.generateContent, by any operation,
\* enhanceSection and reviewResume included, is made by a function that
\* withCircuitBreaker runs.
C21_BreakerIsSoleGate ==
  \A c \in InFlight : c.pc = "remote" => c.wrapped

\* a call of withCircuitBreaker settled in this step
WrappedSettlesNow ==
  /\ BagCardinality(calls') < BagCardinality(calls)
  /\ last'.op = "CB"

C23_ClosedIffBelowThreshold ==
  circuitState = "CLOSED" <=> failureCount < failureThreshold

\* C23 witness: after four failures two calls are in flight while the
\* breaker is HALF-OPEN
C23_Witness ==
  /\ circuitState = "HALF-OPEN"
  /\ failureCount = failureThreshold + 1
  /\ BagCardinality(calls) = 2

\* C24 (as claimed): failureCount goes up only in a step in which an attempt
\* on the provider failed; an exception of local code, raised before or
\* without any call to the provider, leaves it as it was.
C24_OnlyRemoteFailuresCounted ==
  [][failureCount' > failureCount => AttemptFailedNow]_vars

\* C25 (as claimed): under every interleaving of generateResumeContent
\* calls, an entry of the cache, once written, stays and keeps its value: a
\* result of the provider is never replaced by a locally made one.
C25_CacheWrittenOnce ==
  [][\A k \in Keys : cache[k] # NoResult => cache'[k] = cache[k]]_vars

\* in this step a generateResumeContent call found its fingerprint in the
\* cache and returned
CacheHitNow ==
  /\ calls' = calls
  /\ last' # last
  /\ last'.op = "GRC"
  /\ cache[last'.key] # NoResult

\* C26: a generateResumeContent call that hits the cache returns the stored
\* result as it is, calls the provider not at all, takes no slot, and leaves
\* circuitState, failureCount, nextTry, lastApiCall, dailyCallCount and
\* lastResetDate (on a new day too) and the cache as they were.
C26_CacheHitChangesNothing ==
  [][CacheHitNow =>
       /\ last'.result = cache[last'.key]
       /\ last'.attempts = 0
       /\ last'.reserved = 0
       /\ InvokedNow = {}
       /\ ~SlotTakenNow
       /\ UNCHANGED <<circuitState, failureCount, nextTry, lastApiCall,
                      dailyCallCount, lastResetDate, cache>>
    ]_vars

\* C26 witness: on a new day, which no call has noticed yet, a call has been
\* served the provider's result from the cache
C26_Witness ==
  /\ today # lastResetDate
  /\ dailyCallCount > 0
  /\ last.op = "GRC"
  /\ last.attempts = 0
  /\ last.result = ResumeAIResult
  /\ cache[last.key] = ResumeAIResult

\* what the next generateResumeContent call would do in this state, for
\* each request
ResumeStartsNow ==
  {resumeStart(data, genAI, Breaker, Governor, today,
               cache[getCacheKey(data)]) : data \in Requests}

\* C27: while the remote path is unavailable (no credential, breaker OPEN,
\* or quota of the day used up), a call of any of the five operations
\* returns without waiting, so without any call to the provider, takes no
\* slot, and leaves failureCount and circuitState as they were.
C27_UnavailableTouchesNothing ==
  ~isAvailable(genAI, Breaker, Governor, today) =>
    \A s \in StartsNow \cup ResumeStartsNow :
      /\ ~s.wait
      /\ s.c.reserved = 0
      /\ s.g.lastApiCall = lastApiCall
      /\ s.g.dailyCallCount = dailyCallCount
      /\ s.b.failureCount = failureCount
      /\ s.b.circuitState = circuitState

\* C27 witness: the breaker is OPEN, its cool-down has passed, and a resume
\* call has been answered locally without attempt or slot
C27_Witness ==
  /\ genAI
  /\ circuitState = "OPEN"
  /\ now > nextTry
  /\ dailyCallCount < dailyCallLimit
  /\ last.op = "GRC"
  /\ last.attempts = 0
  /\ last.reserved = 0
  /\ last.result = ResumeLocalResult

\* what the next call of the operation, with the request of the call that
\* returned last, would do in this state
StartOf(op) ==
  CASE op = "ATS" -> atsStart(genAI, Breaker, Governor, today)
    [] op = "PS" -> summaryStart(genAI, Breaker, Governor, today)
    [] OTHER -> sectionsStart(genAI, Breaker, Governor, today)

\* C28 (as claimed): computeATSScore, generateProfileSummary and
\* enhanceMultipleSections cache what they return: after one of them has
\* returned, the next call with the same request returns the same result
\* without a call to the provider.
C28_EveryOperationCaches ==
  last.op \in {"ATS", "PS", "EMS"} =>
    /\ ~StartOf(last.op).wait
    /\ StartOf(last.op).res = last.result

\* the failures of an attempt that may pass: a timeout, a 503, another error
\* thrown by the provider (a 429 among them); text that does not parse is
\* none of them
TransientLooking == {"timeout", "e503", "error"}

\* the generateResumeContent and computeATSScore calls that wait for the
\* provider
AttemptsPending ==
  {c \in InFlight : c.pc = "remote" /\ c.op \in {"GRC", "ATS"}}

\* C29 (as claimed): whatever way an attempt of generateResumeContent or
\* computeATSScore ends, the call goes on to a further attempt only after a
\* transient-looking failure; after text that does not parse it returns the
\* local result at once.
C29_RetryOnlyTransient ==
  \A c \in AttemptsPending, o \in RemoteOutcomes :
    settled(c, o, Breaker).wait => o \in TransientLooking

\* a generateResumeContent or computeATSScore call returned in this step
\* after attempts on the provider
ReturnsAfterAttemptsNow ==
  /\ BagCardinality(calls') < BagCardinality(calls)
  /\ last'.op \in {"GRC", "ATS"}
  /\ last'.attempts > 0

\* nothing tagged as the provider's was returned or cached
NothingFromProvider ==
  /\ last.result.path # "ai"
  /\ \A k \in Keys : cache[k].path # "ai"

\* C30: when the text of the provider fails to parse on every attempt, a
\* generateResumeContent or computeATSScore call returns, after its last
\* attempt, the local result with the local tag, never a result tagged ai,
\* and the call is counted as one failure of the breaker.
C30_ParseFailureFallsBack ==
  /\ []NothingFromProvider
  /\ [][ReturnsAfterAttemptsNow =>
          /\ last'.attempts = MaxAttempts(last'.op)
          /\ last'.result = LocalResultOf(last'.op)
          /\ last'.result.path = "local"
          /\ failureCount' = failureCount + 1
       ]_vars

\* C30 witness: a computeATSScore call whose two attempts returned text that
\* does not parse has returned the local score, and the breaker has counted
\* one failure
C30_Witness ==
  /\ last.op = "ATS"
  /\ last.attempts = atsMaxRetries
  /\ last.result = ATSLocalResult
  /\ circuitState = "CLOSED"
  /\ failureCount = 1

\* C31 (as claimed): when the text of the provider parses to JSON of another
\* shape than asked for, generateResumeContent and computeATSScore return
\* and cache the local result, never a result tagged ai.
C31_WrongShapeFallsBack ==
  /\ last.op \in {"GRC", "ATS"} => last.result.path = "local"
  /\ \A k \in Keys : cache[k] # NoResult => cache[k].path = "local"

\* the caller is told that the call failed
SurfacedAsFailure(res) == res.kind = "rejected" \/ res.success = "false"

\* C32 (as claimed): a generateResumeContent call whose request lacks
\* personalInfo returns a failure at once, whether the remote path is
\* available or not; no local result stands in for it.
C32_ContractErrorSurfaced ==
  \A data \in Requests :
    ~data.personalInfo =>
      LET s == resumeStart(data, genAI, Breaker, Governor, today,
                           cache[getCacheKey(data)])
      IN ~s.wait /\ SurfacedAsFailure(s.res)

\* the resume with one more block of text
Longer(resumeData) ==
  [resumeData EXCEPT
     !.blocks = IF @ < MaxTextBlocks THEN @ + 1 ELSE @]

\* C33: for a resume whose completeness is at least 0.4, with the draw of
\* the base score fixed, more text never lowers the score of
\* computeATSScoreLocally, the length bonus is at most 5 and the score at
\* most 80.
C33_ScoreMonotoneInLength ==
  last.op = "ATSL" =>
    LET resumeData == last.out.args[1]
        random == last.out.args[2]
    IN ~LessThan(calculateResumeCompleteness(resumeData), Double(40)) =>
         /\ computeATSScoreLocally(Longer(resumeData), random)
              >= last.out.value
         /\ lengthBonus(calculateResumeLength(resumeData)) <= 5000
         /\ last.out.value >= 70
         /\ last.out.value <= 80

\* C33 witness: a resume with every section and 7500 characters of text got
\* 75 on the lowest draw: base 70 and the bonus capped at 5
C33_Witness ==
  /\ last.op = "ATSL"
  /\ last.out.args[1].has = Sections
  /\ last.out.args[1].blocks = 3
  /\ last.out.args[2] = 0
  /\ last.out.value = 75

\* the table the gap is taken against: that of the role, or that of
\* 'Software Engineer' for a role that has none
ExpectedOf(role) ==
  IF role \in {"Software Engineer", "Frontend Developer",
               "Backend Developer", "Full Stack Developer"}
    THEN roleKeywords(role) ELSE roleKeywords("Software Engineer")

\* the entries of expected that are not among the keywords, in their order
Gap(expected, keywords) ==
  LET Absent(keyword) == \A i \in DOMAIN keywords : keywords[i] # keyword
  IN SelectSeq(expected, Absent)

\* C34 (as claimed): for every resume and every targetRole the local ATS
\* result is returned with keywordsMissing the first five entries of the
\* role's table (the 'Software Engineer' table for a role without one) that
\* are not among the extracted keywords, with no keyword both matched and
\* missing, and with keywordsMatched empty for a resume without summary and
\* technical skills.
C34_KeywordGap ==
  last.op = "KW" =>
    LET resumeData == last.out.args[1]
        targetRole == last.out.args[2]
        value == last.out.value
    IN /\ value.result = ATSLocalResult
       /\ value.keywordsMissing =
            Slice(Gap(ExpectedOf(targetRole), extractKeywords(resumeData)), 5)
       /\ \A i \in DOMAIN value.keywordsMatched :
            \A j \in DOMAIN value.keywordsMissing :
              value.keywordsMatched[i] # value.keywordsMissing[j]
       /\ (resumeData.summary = <<>> /\ resumeData.technical = <<>>) =>
            value.keywordsMatched = <<>>

\* C35: whatever the input text, the text scrubJsonText returns has at
\* least as many } as {, at least as many ] as [, and an even number of
\* double quotes.
C35_ScrubCompletes ==
  last.op \in {"SJT", "SJT2"} =>
    LET text == last.out.value.text IN
    /\ Count(text, "}") >= Count(text, "{")
    /\ Count(text, "]") >= Count(text, "[")
    /\ Count(text, "\"") % 2 = 0

\* C35 witness: a text cut off after an opening brace, an opening bracket
\* and an opening quote came back with all three closed
C35_Witness ==
  /\ last.op = "SJT"
  /\ last.out.args = <<"{", "[", "\"">>
  /\ last.out.value.text = <<"{", "[", "\"", "}", "]", "\"">>

\* a comma followed, after optional white space, by a closing brace or
\* bracket
HasTrailingComma(text) ==
  \E i \in 1..Len(text) :
    /\ text[i] = ","
    /\ \E j \in (i + 1)..Len(text) :
         /\ text[j] \in {"}", "]"}
         /\ \A k \in (i + 1)..(j - 1) : IsSpace(text[k])

\* text that needs no repair: no code fence, no trailing comma, no control
\* character, balanced braces and brackets none of which closes before it
\* opens, an even number of quotes, and no white space around it
WellFormed(text) ==
  /\ \A n \in 0..Len(text) :
       /\ Count(SubSeq(text, 1, n), "}") <= Count(SubSeq(text, 1, n), "{")
       /\ Count(SubSeq(text, 1, n), "]") <= Count(SubSeq(text, 1, n), "[")
  /\ \A i \in 1..Len(text) : text[i] \notin {FenceJson, Fence} /\ ~IsControl(text[i])
  /\ ~HasTrailingComma(text)
  /\ Count(text, "{") = Count(text, "}")
  /\ Count(text, "[") = Count(text, "]")
  /\ Count(text, "\"") % 2 = 0
  /\ text = Trim(text)

\* C36: scrubJsonText returns well-formed text unchanged, an empty-string
\* value or an escaped quote inside a string included.
C36_IdentityOnWellFormed ==
  (last.op = "SJT" /\ WellFormed(last.out.args)) =>
    last.out.value.text = last.out.args
====
